---- MODULE Spec2Model ----
(***************************************************************************)
(* Model of compile/com.py: compile_contract(address, token_name).         *)
(*                                                                         *)
(* Two callers run compile_contract concurrently against one filesystem.   *)
(* Every statement of the function that touches the filesystem or the      *)
(* external tool is one action; the local bookkeeping that follows a       *)
(* statement (building a message, re-raising at the outer except) is part  *)
(* of the same action.  The environment (the filesystem, the temporary     *)
(* directory facility, the aptos tool) chooses nondeterministically        *)
(* whether a step fails and what the tool prints and writes.               *)
(*                                                                         *)
(* Strings are TLA+ strings; a message is the sequence of the fragments    *)
(* that the f-string concatenates; a path is the sequence of its           *)
(* components (os.path.join appends one).  The diagnostic print and        *)
(* os.listdir calls (lines 42-43, 48, 50, 59-61) change no state and are   *)
(* not among the failure sources the function is specified for; they are   *)
(* left out.                                                               *)
(***************************************************************************)
EXTENDS Integers, Sequences, FiniteSets, TLC

\* ------------------------------------------------------------------ bounds
\* Total number of calls of compile_contract made by the callers together.
MaxCalls == 2
\* Longest output file (in bytes) the tool writes.
MaxLen == 2

\* The concurrent callers.
Procs == {1, 2}
\* Names the temporary-directory facility can hand out.
DirNames == {"/tmp/tmpa", "/tmp/tmpb"}
\* The (address, token_name) pairs the callers pass; token_name as characters.
Requests ==
    { [address |-> "0x1", token_name |-> <<"M", "y", "C", "o", "i", "n">>],
      [address |-> "0x2", token_name |-> <<"C", "o", "i", "n">>] }
\* Texts of the OS errors the filesystem can raise (no file name in them).
FsErrTexts == {"[Errno 28] No space left on device", "[Errno 5] Input/output error"}
\* Text of the error raised when the tool cannot be started.
LaunchErrTexts == {"[Errno 2] No such file or directory: 'aptos'"}
\* What the tool writes to its standard output and standard error on failure.
StdoutTexts == {"", "{\"Error\": \"Move compilation failed\"}"}
StderrTexts == {"", "error[E01002]: syntax error"}
\* The bytes the tool writes: prefixes of a bytecode and of a metadata sample.
ModuleSample == <<161, 28, 235, 11>>
MetadataSample == <<0, 255, 16, 8>>

Prefixes(sample) ==
    { [i \in 1..k |-> sample[((i - 1) % Len(sample)) + 1]] : k \in 0..MaxLen }

\* ----------------------------------------------------------------- strings
UpperCase == <<"A","B","C","D","E","F","G","H","I","J","K","L","M",
               "N","O","P","Q","R","S","T","U","V","W","X","Y","Z">>
LowerCase == <<"a","b","c","d","e","f","g","h","i","j","k","l","m",
               "n","o","p","q","r","s","t","u","v","w","x","y","z">>

\* str.lower() on one character.
LowerChar(c) ==
    IF \E i \in 1..Len(UpperCase) : UpperCase[i] = c
    THEN LowerCase[CHOOSE i \in 1..Len(UpperCase) : UpperCase[i] = c]
    ELSE c

\* str.lower() (line 28).
Lower(chars) == [i \in 1..Len(chars) |-> LowerChar(chars[i])]

RECURSIVE Str(_)
\* The string made of the characters chars.
Str(chars) == IF chars = <<>> THEN "" ELSE Head(chars) \o Str(Tail(chars))

RECURSIVE PathStr(_)
\* A path as the text that an f-string puts into a message.
PathStr(path) ==
    IF Len(path) = 1 THEN path[1] ELSE path[1] \o "/" \o PathStr(Tail(path))

\* ------------------------------------------------------------------ base64
B64Alphabet ==
    <<"A","B","C","D","E","F","G","H","I","J","K","L","M","N","O","P",
      "Q","R","S","T","U","V","W","X","Y","Z","a","b","c","d","e","f",
      "g","h","i","j","k","l","m","n","o","p","q","r","s","t","u","v",
      "w","x","y","z","0","1","2","3","4","5","6","7","8","9","+","/">>

B64Char(sextet) == B64Alphabet[sextet + 1]

RECURSIVE B64Encode(_)
\* base64.b64encode(bytes).decode('utf-8') (lines 69, 71).
B64Encode(b) ==
    IF Len(b) = 0 THEN ""
    ELSE IF Len(b) = 1 THEN
        B64Char(b[1] \div 4) \o B64Char((b[1] % 4) * 16) \o "=="
    ELSE IF Len(b) = 2 THEN
        B64Char(b[1] \div 4) \o B64Char((b[1] % 4) * 16 + b[2] \div 16)
            \o B64Char((b[2] % 16) * 4) \o "="
    ELSE
        B64Char(b[1] \div 4) \o B64Char((b[1] % 4) * 16 + b[2] \div 16)
            \o B64Char((b[2] % 16) * 4 + b[3] \div 64) \o B64Char(b[3] % 64)
            \o B64Encode(SubSeq(b, 4, Len(b)))

\* --------------------------------------------------------------- templates
\* CONTRACT_TEMPLATE.format(...) (lines 6-10, 36): the parsed source file.
ContractSource(address, module_name, struct_name) ==
    [address |-> address, module |-> module_name, struct |-> struct_name]

\* A manifest whose package name is not lower-cased.
MoveTomlNotLowered(package_name, module_name, address) ==
    [name |-> module_name \o "_package", version |-> "0.0.1",
     dependencies |-> {"AptosFramework"},
     addresses |-> <<module_name, address>>]

\* MOVE_TOML_TEMPLATE.format(...) (lines 12-22, 40): the parsed manifest.
MoveToml(package_name, module_name, address) ==
    [name |-> package_name, version |-> "0.0.1",
     dependencies |-> {"AptosFramework"},
     addresses |-> <<module_name, address>>]

\* The argument list of subprocess.run (line 46).
CommandLine(temp_dir, module_name, address) ==
    <<"aptos", "move", "compile", "--save-metadata", "--package-dir", temp_dir,
      "--named-addresses", module_name \o "=" \o address>>

\* f"{token_name.lower()}_package" (line 28).
PackageName(token_name) == Str(Lower(token_name)) \o "_package"

\* os.path.join(sources_dir, f"{module_name}.move") (lines 31, 34).
ContractPath(temp_dir, module_name) == <<temp_dir, "sources", module_name \o ".move">>

\* os.path.join(temp_dir, "Move.toml") (line 38).
TomlPath(temp_dir) == <<temp_dir, "Move.toml">>

\* os.path.join(temp_dir, "build", package_name) (line 55).
BuildDir(temp_dir, package_name) == <<temp_dir, "build", package_name>>

\* os.path.join(build_dir, "bytecode_modules", f"{module_name}.mv") (line 56).
ModulePath(build_dir, module_name) ==
    build_dir \o <<"bytecode_modules", module_name \o ".mv">>

\* os.path.join(build_dir, "package-metadata.bcs") (line 57).
MetadataPath(build_dir) == Append(build_dir, "package-metadata.bcs")

\* A return statement with the two values under each other's key.
BuildResultSwapped(module_content, metadata_content) ==
    [module |-> metadata_content, metadata |-> module_content]

\* The dictionary of the return statement (lines 73-76).
BuildResult(module_content, metadata_content) ==
    [module |-> module_content, metadata |-> metadata_content]

\* ------------------------------------------------------------------- state
VARIABLES
    dirs,      \* the directories that exist, each a path
    files,     \* the files that exist: path -> [data, complete, by]
    call,      \* per caller: position and local variables of its current call
    outcome,   \* per caller: what its last call handed to the caller
    ncalls     \* number of calls started so far

vars == <<dirs, files, call, outcome, ncalls>>

NoExc == [type |-> "", msg |-> <<>>]
NoResult == [returncode |-> -1, stdout |-> "", stderr |-> ""]
NoValue == [k \in {} |-> ""]
NoOutcome == [kind |-> "none", type |-> "", msg |-> <<>>, value |-> NoValue]
NoFault == [step |-> "", text |-> ""]
NoTool == [exit |-> -1, stdout |-> "", stderr |-> "", mv |-> {}, bcs |-> {}]

\* The locals of a call before line 26.  The fields from fault on are history:
\* the step that raised first, the number of subprocess.run calls, the command
\* line passed, whether both template files were complete at that moment, what
\* the tool did, the paths tested with os.path.exists, the paths opened for
\* reading and the callers whose files were read.
NewCall ==
    [pc |-> "idle", address |-> "", token_name |-> <<>>,
     module_name |-> "", struct_name |-> "", package_name |-> "",
     temp_dir |-> "", result |-> NoResult,
     module_path |-> <<>>, metadata_path |-> <<>>,
     module_content |-> "", metadata_content |-> "",
     exc |-> NoExc, ret |-> NoValue,
     fault |-> NoFault, runs |-> 0, cmd |-> <<>>, ready |-> FALSE,
     tool |-> NoTool, looked |-> {}, opened |-> {}, readFrom |-> {}]

Init ==
    /\ dirs = {}
    /\ files = [x \in {} |-> 0]
    /\ call = [p \in Procs |-> NewCall]
    /\ outcome = [p \in Procs |-> NoOutcome]
    /\ ncalls = 0

\* -------------------------------------------------------------- filesystem
Exists(path) == path \in DOMAIN files \/ path \in dirs

Put(fs, path, file) ==
    [x \in DOMAIN fs \cup {path} |-> IF x = path THEN file ELSE fs[x]]

\* shutil.rmtree(root): what is left of a set of paths.
Outside(paths, root) == { x \in paths : x[1] # root }

RemoveTree(fs, root) == [x \in Outside(DOMAIN fs, root) |-> fs[x]]

NoEntText == "[Errno 2] No such file or directory"

\* The classes every `except Exception` clause catches.
ExceptionClasses == {"Exception", "OSError", "FileNotFoundError", "CalledProcessError"}

\* The state of a call in which the statement at `step` raised.
Raised(c, step, type, text, msg) ==
    [c EXCEPT !.exc = [type |-> type, msg |-> msg],
              !.fault = IF c.fault.step = "" THEN [step |-> step, text |-> text]
                        ELSE c.fault,
              !.pc = "exit"]

\* The outer `except Exception as e: raise Exception(f"Unexpected error: ...")`
\* (lines 78-79): what reaches the caller for a pending exception.
Boundary(exc) ==
    IF exc.type \in ExceptionClasses
    THEN [kind |-> "raised", type |-> "Exception",
          msg |-> <<"Unexpected error: ">> \o exc.msg, value |-> NoValue]
    ELSE [kind |-> "raised", type |-> exc.type, msg |-> exc.msg, value |-> NoValue]

\* ------------------------------------------------------------ the aptos tool
\* The longest file of a sample.
Longest(sample) == CHOOSE d \in Prefixes(sample) : Len(d) = MaxLen

\* The bytecode files and the metadata files the tool may write.
ModuleFiles == Prefixes(ModuleSample)
MetadataFiles == {<<>>, Longest(MetadataSample)}

\* What one run of the tool may do: its exit status, what it prints, and the
\* output files it writes (mv, bcs: empty when the file is not written).
\* A successful compile prints no diagnostics and writes any of the files; a
\* failed one prints any of the texts and leaves both files or none.
ToolBehaviours ==
    [exit : {0}, stdout : {"{\"Result\": []}"}, stderr : {""},
     mv : {{}} \cup {{d} : d \in ModuleFiles},
     bcs : {{}} \cup {{d} : d \in MetadataFiles}]
    \cup
    { [exit |-> 1, stdout |-> so, stderr |-> se, mv |-> w[1], bcs |-> w[2]] :
        so \in StdoutTexts, se \in StderrTexts,
        w \in { <<{}, {}>>, <<{Longest(ModuleSample)}, {Longest(MetadataSample)}>> } }

\* The complete source files of the package at --package-dir.
ToolSources(fs, dir) ==
    { x \in DOMAIN fs : Len(x) = 3 /\ x[1] = dir /\ x[2] = "sources" /\ fs[x].complete }

\* The tool can compile the package: its manifest and one source are there.
ToolCanCompile(fs, dir) ==
    /\ TomlPath(dir) \in DOMAIN fs
    /\ fs[TomlPath(dir)].complete
    /\ ToolSources(fs, dir) # {}

\* The files after the tool ran with command line cmd and behaviour b for
\* caller p: it writes build/<name of the manifest>/bytecode_modules/<module of
\* the source>.mv and build/<name of the manifest>/package-metadata.bcs.
ToolWrites(fs, cmd, b, p) ==
    LET dir == cmd[6] IN
    IF ~ToolCanCompile(fs, dir) THEN fs
    ELSE
        LET name == fs[TomlPath(dir)].data.name
            src == CHOOSE x \in ToolSources(fs, dir) : TRUE
            out == <<dir, "build", name>>
            mvp == out \o <<"bytecode_modules", fs[src].data.module \o ".mv">>
            bcp == Append(out, "package-metadata.bcs")
            fs1 == IF b.mv = {} THEN fs
                   ELSE Put(fs, mvp, [data |-> CHOOSE d \in b.mv : TRUE,
                                      complete |-> TRUE, by |-> p])
        IN  IF b.bcs = {} THEN fs1
            ELSE Put(fs1, bcp, [data |-> CHOOSE d \in b.bcs : TRUE,
                                complete |-> TRUE, by |-> p])

\* ----------------------------------------------------------------- actions
\* A caller calls compile_contract(address, token_name): lines 24-28.
Call(p) ==
    /\ call[p].pc \in {"idle", "done"}
    /\ ncalls < MaxCalls
    /\ \E r \in Requests :
         call' = [call EXCEPT ![p] =
                    [NewCall EXCEPT !.pc = "mkdtemp",
                                    !.address = r.address,
                                    !.token_name = r.token_name,
                                    !.module_name = Str(r.token_name),
                                    !.struct_name = Str(r.token_name),
                                    !.package_name = PackageName(r.token_name)]]
    /\ outcome' = [outcome EXCEPT ![p] = NoOutcome]
    /\ ncalls' = ncalls + 1
    /\ UNCHANGED <<dirs, files>>

\* The names tempfile may hand out: those of no existing directory.
FreshDirs == { d \in DirNames : <<d>> \notin dirs }

\* tempfile.TemporaryDirectory() (line 30) creating a directory among cands.
\* An error here is raised before the with block is entered: it goes straight
\* to the outer except (lines 78-79).
MkDtempAmong(p, cands) ==
    /\ call[p].pc = "mkdtemp"
    /\ \/ \E d \in cands :
            /\ dirs' = dirs \cup {<<d>>}
            /\ call' = [call EXCEPT ![p].temp_dir = d, ![p].pc = "makedirs"]
            /\ UNCHANGED <<files, outcome, ncalls>>
       \/ \E e \in FsErrTexts :
            /\ call' = [call EXCEPT ![p] =
                          [NewCall EXCEPT !.pc = "done",
                                          !.fault = [step |-> "mkdtemp", text |-> e]]]
            /\ outcome' = [outcome EXCEPT ![p] =
                             Boundary([type |-> "OSError", msg |-> <<e>>])]
            /\ UNCHANGED <<dirs, files, ncalls>>

\* A temporary-directory facility that may hand out a name in use.
MkDtempAny(p) == MkDtempAmong(p, DirNames)

MkDtemp(p) == MkDtempAmong(p, FreshDirs)

\* os.makedirs(sources_dir, exist_ok=True) (lines 31-32).
MakeDirs(p) ==
    /\ call[p].pc = "makedirs"
    /\ LET c == call[p] IN
       \/ /\ dirs' = dirs \cup {<<c.temp_dir>>, <<c.temp_dir, "sources">>}
          /\ call' = [call EXCEPT ![p].pc = "write_contract"]
       \/ \E e \in FsErrTexts :
            /\ call' = [call EXCEPT ![p] = Raised(c, "makedirs", "OSError", e, <<e>>)]
            /\ UNCHANGED dirs
    /\ UNCHANGED <<files, outcome, ncalls>>

\* with open(path, 'w') as f: f.write(data), for caller p at step `step`:
\* it succeeds, or open fails and no file is made, or write fails and a
\* truncated file is left.  Without the parent directory open fails.
WriteFile(p, step, next, path, data) ==
    LET c == call[p]
        parent == SubSeq(path, 1, Len(path) - 1)
    IN
    IF parent \notin dirs
    THEN /\ call' = [call EXCEPT ![p] =
                       Raised(c, step, "FileNotFoundError", NoEntText, <<NoEntText>>)]
         /\ UNCHANGED files
    ELSE \/ /\ files' = Put(files, path, [data |-> data, complete |-> TRUE, by |-> p])
            /\ call' = [call EXCEPT ![p].pc = next]
         \/ \E e \in FsErrTexts :
              /\ call' = [call EXCEPT ![p] = Raised(c, step, "OSError", e, <<e>>)]
              /\ \/ UNCHANGED files
                 \/ files' = Put(files, path,
                                 [data |-> <<>>, complete |-> FALSE, by |-> p])

\* Lines 34-36: the source file.
WriteContract(p) ==
    /\ call[p].pc = "write_contract"
    /\ LET c == call[p] IN
       WriteFile(p, "write_contract", "write_toml",
                 ContractPath(c.temp_dir, c.module_name),
                 ContractSource(c.address, c.module_name, c.struct_name))
    /\ UNCHANGED <<dirs, outcome, ncalls>>

\* Lines 38-40: the manifest.
WriteToml(p) ==
    /\ call[p].pc = "write_toml"
    /\ LET c == call[p] IN
       WriteFile(p, "write_toml", "run", TomlPath(c.temp_dir),
                 MoveToml(c.package_name, c.module_name, c.address))
    /\ UNCHANGED <<dirs, outcome, ncalls>>

\* str(e) of the CalledProcessError of a non-zero exit.
CalledProcessText == "Command '['aptos', 'move', 'compile', ...]' returned non-zero exit status 1."

\* Handlers with the CalledProcessError clause missing.
CompileErrorOneClause(class, output, text) ==
    <<"Unexpected error during compilation: ", text>>

\* The two except clauses around subprocess.run (lines 49-53): the message of
\* the Exception raised for an exception of class `class` whose output
\* attribute is `output` and whose str() is `text`.
CompileError(class, output, text) ==
    IF class = "CalledProcessError"
    THEN <<"Compilation failed: ", output>>
    ELSE <<"Unexpected error during compilation: ", text>>

\* subprocess.run(..., capture_output=True, text=True, check=check) and its
\* handlers (lines 45-53).  The tool cannot be started, or it runs to its end.
\* CalledProcessError.output is the captured standard output.
RunToolChecked(p, check) ==
    /\ call[p].pc = "run"
    /\ LET c == call[p]
           cmd == CommandLine(c.temp_dir, c.module_name, c.address)
           src == ContractPath(c.temp_dir, c.module_name)
           toml == TomlPath(c.temp_dir)
           ready == /\ src \in DOMAIN files /\ files[src].complete
                    /\ toml \in DOMAIN files /\ files[toml].complete
           c1 == [c EXCEPT !.runs = @ + 1, !.cmd = cmd, !.ready = ready]
       IN
       \/ \E e \in LaunchErrTexts :
            /\ call' = [call EXCEPT ![p] =
                          Raised(c1, "launch", "Exception", e,
                                 CompileError("FileNotFoundError", "", e))]
            /\ UNCHANGED files
       \/ \E b \in ToolBehaviours :
            /\ b.exit = 0 => ToolCanCompile(files, c.temp_dir)
            /\ files' = ToolWrites(files, cmd, b, p)
            /\ call' = [call EXCEPT ![p] =
                 IF b.exit # 0 /\ check
                 THEN Raised([c1 EXCEPT !.tool = b], "exit", "Exception", b.stdout,
                             CompileError("CalledProcessError", b.stdout,
                                          CalledProcessText))
                 ELSE [c1 EXCEPT !.tool = b,
                                 !.result = [returncode |-> b.exit,
                                             stdout |-> b.stdout,
                                             stderr |-> b.stderr],
                                 !.pc = "check_module"]]
    /\ UNCHANGED <<dirs, outcome, ncalls>>

\* subprocess.run without check=True.
RunToolUnchecked(p) == RunToolChecked(p, FALSE)

RunTool(p) == RunToolChecked(p, TRUE)

\* A module message that names the other path.
NotFoundOtherPath(which, module_path, metadata_path) ==
    IF which = "module"
    THEN <<"Compiled module file not found at ", PathStr(metadata_path)>>
    ELSE <<"Metadata file not found at ", PathStr(metadata_path)>>

\* The messages of lines 64 and 66.
NotFound(which, module_path, metadata_path) ==
    IF which = "module"
    THEN <<"Compiled module file not found at ", PathStr(module_path)>>
    ELSE <<"Metadata file not found at ", PathStr(metadata_path)>>

\* Lines 55-57 and 63-64: the expected paths, and the bytecode file's check.
CheckModule(p) ==
    /\ call[p].pc = "check_module"
    /\ LET c == call[p]
           build_dir == BuildDir(c.temp_dir, c.package_name)
           module_path == ModulePath(build_dir, c.module_name)
           metadata_path == MetadataPath(build_dir)
           c1 == [c EXCEPT !.module_path = module_path,
                           !.metadata_path = metadata_path,
                           !.looked = @ \cup {module_path}]
       IN call' = [call EXCEPT ![p] =
             IF Exists(module_path)
             THEN [c1 EXCEPT !.pc = "check_metadata"]
             ELSE Raised(c1, "check_module", "Exception", PathStr(module_path),
                         NotFound("module", module_path, metadata_path))]
    /\ UNCHANGED <<dirs, files, outcome, ncalls>>

\* Lines 65-66: the metadata file's check.
CheckMetadata(p) ==
    /\ call[p].pc = "check_metadata"
    /\ LET c == call[p]
           c1 == [c EXCEPT !.looked = @ \cup {c.metadata_path}]
       IN call' = [call EXCEPT ![p] =
             IF Exists(c.metadata_path)
             THEN [c1 EXCEPT !.pc = "read_module"]
             ELSE Raised(c1, "check_metadata", "Exception", PathStr(c.metadata_path),
                         NotFound("metadata", c.module_path, c.metadata_path))]
    /\ UNCHANGED <<dirs, files, outcome, ncalls>>

\* Lines 68-69: read and encode the bytecode file.
ReadModule(p) ==
    /\ call[p].pc = "read_module"
    /\ LET c == [call[p] EXCEPT !.opened = @ \cup {call[p].module_path}] IN
       IF c.module_path \notin DOMAIN files
       THEN call' = [call EXCEPT ![p] =
                Raised(c, "read_module", "FileNotFoundError", NoEntText, <<NoEntText>>)]
       ELSE \/ call' = [call EXCEPT ![p] =
                  [c EXCEPT !.module_content = B64Encode(files[c.module_path].data),
                            !.readFrom = @ \cup {files[c.module_path].by},
                            !.pc = "read_metadata"]]
            \/ \E e \in FsErrTexts :
                 call' = [call EXCEPT ![p] = Raised(c, "read_module", "OSError", e, <<e>>)]
    /\ UNCHANGED <<dirs, files, outcome, ncalls>>

\* A read error that is swallowed: the call goes on to return what it has.
MetadataReadErrorIgnored(c, type, e) ==
    [c EXCEPT !.ret = [module |-> c.module_content], !.pc = "exit"]

\* An exception of open or read at lines 70-71 leaves the with block.
MetadataReadError(c, type, e) == Raised(c, "read_metadata", type, e, <<e>>)

\* Lines 70-76: read and encode the metadata file, and return both.
ReadMetadata(p) ==
    /\ call[p].pc = "read_metadata"
    /\ LET c == [call[p] EXCEPT !.opened = @ \cup {call[p].metadata_path}] IN
       IF c.metadata_path \notin DOMAIN files
       THEN call' = [call EXCEPT ![p] =
                       MetadataReadError(c, "FileNotFoundError", NoEntText)]
       ELSE \/ LET content == B64Encode(files[c.metadata_path].data) IN
               call' = [call EXCEPT ![p] =
                  [c EXCEPT !.metadata_content = content,
                            !.readFrom = @ \cup {files[c.metadata_path].by},
                            !.ret = BuildResult(c.module_content, content),
                            !.pc = "exit"]]
            \/ \E e \in FsErrTexts :
                 call' = [call EXCEPT ![p] = MetadataReadError(c, "OSError", e)]
    /\ UNCHANGED <<dirs, files, outcome, ncalls>>

\* A cleanup that runs on the normal path only.
TemporaryDirectoryExitOnReturn(paths, root, exc) ==
    IF exc.type # "" THEN paths ELSE Outside(paths, root)

\* TemporaryDirectory.__exit__ (line 30): the paths left once the with block
\* is left, with or without an exception.
TemporaryDirectoryExit(paths, root, exc) == Outside(paths, root)

\* Leaving the with block (line 30), by return (lines 73-76) or by an
\* exception, which the outer except re-raises (lines 78-79).  The locals die
\* with the call; of the history only the failed step is kept.
ExitWith(p) ==
    /\ call[p].pc = "exit"
    /\ LET c == call[p] IN
       /\ dirs' = TemporaryDirectoryExit(dirs, c.temp_dir, c.exc)
       /\ files' = [x \in TemporaryDirectoryExit(DOMAIN files, c.temp_dir, c.exc)
                      |-> files[x]]
       /\ outcome' = [outcome EXCEPT ![p] =
                        IF c.exc.type # "" THEN Boundary(c.exc)
                        ELSE [kind |-> "returned", type |-> "", msg |-> <<>>,
                              value |-> c.ret]]
       /\ call' = [call EXCEPT ![p] = [NewCall EXCEPT !.pc = "done", !.fault = c.fault]]
    /\ UNCHANGED ncalls

Next ==
    \E p \in Procs :
        \/ Call(p)
        \/ MkDtemp(p)
        \/ MakeDirs(p)
        \/ WriteContract(p)
        \/ WriteToml(p)
        \/ RunTool(p)
        \/ CheckModule(p)
        \/ CheckMetadata(p)
        \/ ReadModule(p)
        \/ ReadMetadata(p)
        \/ ExitWith(p)

Spec == Init /\ [][Next]_vars

\* ------------------------------------------------------------ the properties
\* Caller p's call ends in this step: it returns or raises to the caller.
Finishes(p) == call[p].pc \notin {"idle", "done"} /\ call'[p].pc = "done"

\* Fragment t occurs in message msg (the empty text occurs in every message).
Contains(msg, t) == t = "" \/ \E i \in 1..Len(msg) : msg[i] = t

\* The package name and the output paths the specification gives for a call,
\* written out for the token names of Requests.
ExpectedPackage(token_name) ==
    IF token_name = <<"C", "o", "i", "n">> THEN "coin_package" ELSE "mycoin_package"

ExpectedModule(token_name) ==
    IF token_name = <<"C", "o", "i", "n">> THEN "Coin" ELSE "MyCoin"

ExpectedModulePath(c) ==
    <<c.temp_dir, "build", ExpectedPackage(c.token_name), "bytecode_modules",
      ExpectedModule(c.token_name) \o ".mv">>

ExpectedMetadataPath(c) ==
    <<c.temp_dir, "build", ExpectedPackage(c.token_name), "package-metadata.bcs">>

\* The base64 text of the sample files, as base64.b64encode gives them.
Known64(b) ==
    CASE b = <<>> -> ""
      [] b = <<161>> -> "oQ=="
      [] b = <<161, 28>> -> "oRw="
      [] b = <<161, 28, 235>> -> "oRzr"
      [] b = <<161, 28, 235, 11>> -> "oRzrCw=="
      [] b = <<0>> -> "AA=="
      [] b = <<0, 255>> -> "AP8="
      [] b = <<0, 255, 16>> -> "AP8Q"
      [] b = <<0, 255, 16, 8>> -> "AP8QCA=="

\* C1: once a call has returned or raised, whatever its outcome, the temporary
\* directory created for it and everything under it no longer exist.
C1_DirectoryRemoved ==
    [][\A p \in Procs :
         Finishes(p) /\ call[p].temp_dir # "" =>
             \A x \in dirs' \cup DOMAIN files' : x[1] # call[p].temp_dir]_vars

\* A call failed while reading the metadata file and nothing is left on disk.
C1_Witness ==
    \E p \in Procs :
        /\ call[p].pc = "done"
        /\ call[p].fault.step = "read_metadata"
        /\ outcome[p].kind = "raised"
        /\ dirs = {} /\ DOMAIN files = {}

\* C2: a call either returns a mapping with both keys, both read from files
\* that existed, or raises and returns nothing; with the bytecode file there
\* and the metadata file missing or unreadable, nothing is returned.
C2_NoPartialResult ==
    [][\A p \in Procs :
         Finishes(p) =>
             LET c == call[p]
                 o == outcome'[p]
                 step == call'[p].fault.step
             IN /\ o.kind \in {"returned", "raised"}
                /\ o.kind = "returned" =>
                       /\ DOMAIN o.value = {"module", "metadata"}
                       /\ c.looked = {ExpectedModulePath(c), ExpectedMetadataPath(c)}
                       /\ c.opened = c.looked
                       /\ c.opened \subseteq DOMAIN files
                       /\ step = ""
                /\ o.kind = "raised" => DOMAIN o.value = {}
                /\ step \in {"check_metadata", "read_metadata"} => o.kind = "raised"]_vars

\* A call found the bytecode file but not the metadata file, and raised.
C2_Witness ==
    \E p \in Procs :
        /\ call[p].pc = "done"
        /\ call[p].fault.step = "check_metadata"
        /\ outcome[p].kind = "raised"
        /\ DOMAIN outcome[p].value = {}

\* The result the specification gives when both output files are there.
C3_Result(p) ==
    LET c == call[p]
        o == outcome'[p]
        mv == files[ExpectedModulePath(c)].data
        bcs == files[ExpectedMetadataPath(c)].data
    IN /\ o.kind = "returned"
       /\ DOMAIN o.value = {"module", "metadata"}
       /\ o.value.module = Known64(mv)
       /\ o.value.metadata = Known64(bcs)
       /\ mv = <<>> /\ bcs = <<>> => o.value = [module |-> "", metadata |-> ""]

\* The tool exited 0 and left both expected output files.
C3_BothFiles(p) ==
    /\ call[p].result.returncode = 0
    /\ ExpectedModulePath(call[p]) \in DOMAIN files
    /\ ExpectedMetadataPath(call[p]) \in DOMAIN files

C4_EmbedsCapturedOutput ==
    [][\A p \in Procs :
         Finishes(p) /\ call[p].tool.exit > 0 =>
             /\ outcome'[p].kind = "raised"
             /\ Contains(outcome'[p].msg, call[p].tool.stdout)
             /\ Contains(outcome'[p].msg, call[p].tool.stderr)
             /\ call[p].looked = {} /\ call[p].opened = {}]_vars

\* C5: whenever the tool exits 0 and an expected output file is absent, the
\* call fails with a message naming the missing path: the bytecode path when
\* the bytecode file is missing, the metadata path when only that is missing.
C5_NamesMissingPath ==
    [][\A p \in Procs :
         LET c == call[p]
             mvp == ExpectedModulePath(c)
             bcp == ExpectedMetadataPath(c)
         IN  /\ Finishes(p)
             /\ c.result.returncode = 0
             /\ mvp \notin DOMAIN files \/ bcp \notin DOMAIN files
             => /\ outcome'[p].kind = "raised"
                /\ IF mvp \notin DOMAIN files
                   THEN Contains(outcome'[p].msg, PathStr(mvp))
                   ELSE Contains(outcome'[p].msg, PathStr(bcp))]_vars

\* A call whose tool exited 0 without the bytecode file raised, naming it.
C5_Witness ==
    \E p \in Procs :
        /\ call[p].pc = "done"
        /\ call[p].fault.step = "check_module"
        /\ outcome[p].kind = "raised"
        /\ Contains(outcome[p].msg,
                    "/tmp/tmpa/build/coin_package/bytecode_modules/Coin.mv")

\* C6: every failure reaches the caller as the one error type raised at the
\* outer call boundary, its message containing the original exception text or
\* the output (standard output and standard error) of the subprocess.
C6_UniformErrorKeepsCause ==
    [][\A p \in Procs :
         Finishes(p) /\ call'[p].fault.step # "" =>
             LET o == outcome'[p] IN
             /\ o.kind = "raised"
             /\ o.type = "Exception"
             /\ o.msg[1] = "Unexpected error: "
             /\ Contains(o.msg, call'[p].fault.text)
             /\ call'[p].fault.step = "exit" =>
                    /\ Contains(o.msg, call[p].tool.stdout)
                    /\ Contains(o.msg, call[p].tool.stderr)]_vars

\* Caller p is inside the with block: its directory has been handed out and
\* not yet been cleaned up.
InWith(p) == call[p].pc \notin {"idle", "mkdtemp", "done"}

\* The paths under root.
Under(paths, root) == { x \in paths : x[1] = root }

\* What a call with locals c and failed step fault hands to its caller when
\* it runs alone, given what the environment did to it: the fault it raised
\* and the files its own run of the tool wrote.
Alone(c, fault) ==
    LET raised(m) == [kind |-> "raised", type |-> "Exception",
                      msg |-> <<"Unexpected error: ">> \o m, value |-> NoValue]
    IN CASE fault.step \in {"mkdtemp", "makedirs", "write_contract", "write_toml",
                            "read_module", "read_metadata"} ->
                raised(<<fault.text>>)
         [] fault.step = "launch" ->
                raised(<<"Unexpected error during compilation: ", fault.text>>)
         [] fault.step = "exit" ->
                raised(<<"Compilation failed: ", c.tool.stdout>>)
         [] fault.step = "check_module" ->
                raised(<<"Compiled module file not found at ",
                         PathStr(ExpectedModulePath(c))>>)
         [] fault.step = "check_metadata" ->
                raised(<<"Metadata file not found at ",
                         PathStr(ExpectedMetadataPath(c))>>)
         [] OTHER ->
                [kind |-> "returned", type |-> "", msg |-> <<>>,
                 value |-> [module |-> Known64(CHOOSE d \in c.tool.mv : TRUE),
                            metadata |-> Known64(CHOOSE d \in c.tool.bcs : TRUE)]]

\* The step at which a call fails when it runs alone, given what its own run
\* of the tool did; none of its files has disappeared under it.
AloneFault(c, fault) ==
    /\ fault.text # NoEntText
    /\ fault.step = "exit" <=> c.tool.exit > 0
    /\ fault.step = "check_module" <=> c.tool.exit = 0 /\ c.tool.mv = {}
    /\ fault.step = "check_metadata" <=>
           c.tool.exit = 0 /\ c.tool.mv # {} /\ c.tool.bcs = {}

\* C7: under any interleaving of concurrent calls, each call works inside its
\* own directory only: the directory of a call in progress exists and holds
\* only files written for that call, a step of one call leaves the directory
\* of every other call in progress as it is, no call reads a file written for
\* another call, and each call's outcome is the one it has when run alone.
C7_CallsAreIsolated ==
    [][\A p \in Procs :
         /\ InWith(p)' =>
               /\ <<call'[p].temp_dir>> \in dirs'
               /\ \A x \in Under(DOMAIN files', call'[p].temp_dir) : files'[x].by = p
               /\ call'[p].readFrom \subseteq {p}
         /\ InWith(p) /\ call'[p] = call[p] =>
               /\ Under(dirs', call[p].temp_dir) = Under(dirs, call[p].temp_dir)
               /\ Under(DOMAIN files', call[p].temp_dir)
                      = Under(DOMAIN files, call[p].temp_dir)
               /\ \A x \in Under(DOMAIN files, call[p].temp_dir) : files'[x] = files[x]
         /\ Finishes(p) =>
               /\ AloneFault(call[p], call'[p].fault)
               /\ outcome'[p] = Alone(call[p], call'[p].fault)]_vars

\* Two calls for the same token are in progress at once, each past its compile.
C7_Witness ==
    /\ call[1].pc = "read_metadata"
    /\ call[2].pc = "read_module"
    /\ call[1].token_name = call[2].token_name
    /\ call[1].temp_dir # call[2].temp_dir

\* C8: within a call the derived names are used consistently: the package
\* name is the lower-cased token name plus "_package" and the module name is
\* the token name; the manifest holds that package name, which is the one in
\* the expected output paths; the source file and the expected bytecode file
\* carry the module name; the manifest's address binding is the one passed
\* on the command line.
C8_NamesConsistent ==
    \A p \in Procs :
        LET c == call[p]
            toml == <<c.temp_dir, "Move.toml">>
            manifest == files[toml].data
        IN  call[p].pc \notin {"idle", "done"} =>
            /\ c.package_name = ExpectedPackage(c.token_name)
            /\ c.module_name = ExpectedModule(c.token_name)
            /\ c.pc \in {"run", "check_module", "check_metadata",
                         "read_module", "read_metadata"} =>
                   /\ toml \in DOMAIN files
                   /\ manifest.name = ExpectedPackage(c.token_name)
                   /\ manifest.addresses = <<c.module_name, c.address>>
                   /\ \A x \in Under(DOMAIN files, c.temp_dir) :
                          x[2] = "sources" =>
                              /\ x[3] = c.module_name \o ".move"
                              /\ files[x].data.module = c.module_name
                   /\ <<c.temp_dir, "sources", c.module_name \o ".move">> \in DOMAIN files
            /\ c.cmd # <<>> =>
                   /\ toml \in DOMAIN files
                   /\ c.cmd[6] = c.temp_dir
                   /\ c.cmd[8] = manifest.addresses[1] \o "=" \o manifest.addresses[2]
            /\ c.module_path # <<>> =>
                   /\ toml \in DOMAIN files
                   /\ c.module_path = <<c.temp_dir, "build", manifest.name,
                                        "bytecode_modules", c.module_name \o ".mv">>
                   /\ c.metadata_path = <<c.temp_dir, "build", manifest.name,
                                          "package-metadata.bcs">>

\* A call for "Coin" has written its manifest, run the tool and computed the
\* expected paths under coin_package.
C8_Witness ==
    \E p \in Procs :
        /\ call[p].pc = "check_metadata"
        /\ call[p].token_name = <<"C", "o", "i", "n">>
        /\ files[<<call[p].temp_dir, "Move.toml">>].data.name = "coin_package"
        /\ call[p].module_path[3] = "coin_package"
        /\ call[p].cmd[8] = "Coin=0x2"

\* The failure source that a failed step belongs to.
Source(step) ==
    CASE step \in {"mkdtemp", "makedirs", "write_contract", "write_toml"} -> "fs_write"
      [] step = "exit" -> "exit"
      [] step = "launch" -> "launch"
      [] step \in {"check_module", "check_metadata"} -> "missing"
      [] step \in {"read_module", "read_metadata"} -> "fs_read"
      [] OTHER -> "none"

\* The step context of a message: what the code puts before the text of the
\* root cause (the exception text, the tool's output, the missing path).
Context(msg) == SubSeq(msg, 1, Len(msg) - 1)

\* Callers p and q both had their last call fail, at different sources.
FailedApart(p, q) ==
    /\ call[p].pc = "done" /\ outcome[p].kind = "raised"
    /\ call[q].pc = "done" /\ outcome[q].kind = "raised"
    /\ Source(call[p].fault.step) # Source(call[q].fault.step)

\* C9 as stated: the messages of failures of two different failure sources
\* differ in their step context.
C9_Original ==
    \A p, q \in Procs :
        FailedApart(p, q) => Context(outcome[p].msg) # Context(outcome[q].msg)

\* C9 as amended: a non-zero exit, a failure to launch and a missing output
\* file each carry a step context of their own, which tells them from every
\* other failure source; filesystem errors, whether from creating and writing
\* or from reading, carry only the generic prefix before the exception text.
C9_StepContext ==
    /\ \A p, q \in Procs :
           /\ FailedApart(p, q)
           /\ {Source(call[p].fault.step), Source(call[q].fault.step)}
                  # {"fs_write", "fs_read"}
           => Context(outcome[p].msg) # Context(outcome[q].msg)
    /\ \A p \in Procs :
           call[p].pc = "done" /\ outcome[p].kind = "raised" =>
               LET src == Source(call[p].fault.step)
                   ctx == Context(outcome[p].msg)
               IN  /\ src \in {"fs_write", "fs_read"} => ctx = <<"Unexpected error: ">>
                   /\ src = "exit" => ctx = <<"Unexpected error: ", "Compilation failed: ">>
                   /\ src = "launch" =>
                          ctx = <<"Unexpected error: ",
                                  "Unexpected error during compilation: ">>
                   /\ src = "missing" =>
                          ctx \in {<<"Unexpected error: ",
                                     "Compiled module file not found at ">>,
                                   <<"Unexpected error: ", "Metadata file not found at ">>}

\* One call failed with a non-zero exit and another could not launch the tool.
C9_Witness ==
    /\ call[1].pc = "done" /\ call[1].fault.step = "exit"
    /\ call[2].pc = "done" /\ call[2].fault.step = "launch"
    /\ Context(outcome[1].msg) # Context(outcome[2].msg)

\* The steps that come before the tool is run.
EarlySteps == {"mkdtemp", "makedirs", "write_contract", "write_toml"}

\* C10: in a call the tool is invoked at most once, and only when the source
\* file and the manifest have both been written completely; after a failure
\* of an earlier step it is never invoked, after any failure the call does
\* nothing but leave; output files are tested and read only after the tool
\* exited with status 0.
C10_ToolOnceAfterWrites ==
    \A p \in Procs :
        LET c == call[p] IN
        /\ c.runs <= 1
        /\ c.runs = 1 => c.ready
        /\ c.pc \in {"check_module", "check_metadata", "read_module", "read_metadata"}
               => c.runs = 1
        /\ c.fault.step \in EarlySteps => c.runs = 0
        /\ c.fault.step # "" => c.pc \in {"exit", "done"}
        /\ c.looked # {} \/ c.opened # {} =>
               c.runs = 1 /\ c.result.returncode = 0 /\ c.tool.exit = 0

\* A call is reading the output files after its one run of the tool.
C10_Witness ==
    \E p \in Procs :
        /\ call[p].pc = "read_metadata"
        /\ call[p].runs = 1 /\ call[p].ready
        /\ call[p].result.returncode = 0
        /\ Cardinality(call[p].looked) = 2

====
